---- MODULE Spec2Model ----
(***************************************************************************)
(* Order creation and payment reconciliation of the HealthStore backend:   *)
(* the orders, cart and products tables, the Paystack gateway, and the     *)
(* request handlers of routes/orders.js, routes/paystack.js, routes/cart.js*)
(* routes/admin.js and server.js.  A handler is modelled one database call *)
(* (one await) at a time, so that requests interleave as they do on the    *)
(* Node event loop.  The part of a handler up to its first write is a      *)
(* function of the tables and the request: the status it answers with (0   *)
(* when it has not answered yet), the tables it leaves, and the request    *)
(* that goes on to the next await, if any.                                 *)
(***************************************************************************)
EXTENDS Integers, Sequences, FiniteSets, Bags, TLC

\* ---------------------------------------------------------------- bounds
MaxOrders     == 1    \* orders ever created where every handler runs
MaxRacing     == 2    \* orders ever created where checkouts race for stock
MaxClock      == 1    \* Date.now() ranges over 0..MaxClock
MaxQty        == 1    \* largest quantity a cart request asks for
InitStock     == 1    \* stock of every product in the initial catalogue
MaxInflight   == 2    \* requests being handled at the same time
MaxDeliveries == 2    \* deliveries of charge.success the gateway makes per order
MaxLines      == 2    \* longest item list handed to calculateOrderTotals on its own

Users      == {"u1", "u2"}
Shoppers   == {"u1"}     \* the users who fill a cart and check out
ProductSeq == <<"pA", "pB">>
Products   == {ProductSeq[i] : i \in 1..Len(ProductSeq)}
OrderIds   == 1..MaxRacing

\* --------------------------------------------------------------- values
\* A payment reference `order_${order.id}_${Date.now()}`.
Reference(order_id, clock) == [oid |-> order_id, t |-> clock]
NoRef      == [oid |-> 0, t |-> -1]     \* payment_reference IS NULL
ForeignRef == [oid |-> 0, t |-> 0]      \* a transaction this backend did not start
AllRefs    == {Reference(o, c) : o \in OrderIds, c \in 0..MaxClock}
OrderRefs  == {r \in AllRefs : r.oid <= MaxOrders}   \* those of the first orders

NoMeta == [order_id |-> 0, user_id |-> "none"]

PaymentStatuses == {"pending", "success", "failed"}
OrderStatuses   == {"pending", "payment_failed", "processing", "shipped",
                    "delivered", "cancelled"}

VARIABLES
  orders,     \* the orders table: a sequence, an order's id is its index
  cart,       \* the cart table: a set of rows [user_id, product_id, quantity]
  stock,      \* products.stock, per product
  price,      \* products.price, per product, in kobo
  txns,       \* the gateway's transactions: reference -> status
  now,        \* Date.now()
  inflight,   \* bag of requests between two awaits
  clears,     \* history: per order, cart deletes run by success triggers
  decs,       \* history: per order and product, decrement_stock calls that succeeded
  stockErr,   \* history: per order, whether a decrement_stock call failed
  applied,    \* history: per order, the success triggers that completed on it
  calc        \* a call of calculateOrderTotals: its arguments and what it returned

vars == <<orders, cart, stock, price, txns, now, inflight,
          clears, decs, stockErr, applied, calc>>

\* ------------------------------------------------------------- requests
\* A request between two awaits: the handler, the await it is at, and its
\* locals (req.user.id or metadata.user_id, the order's id, the reference, the
\* index into order_items, and what it has seen: the payment_status of the
\* order row it read, or what came of its email).
Req(kind, pc, uid, oid, ref, idx) ==
  [kind |-> kind, pc |-> pc, uid |-> uid, oid |-> oid, ref |-> ref, idx |-> idx,
   seen |-> "none", amount |-> 0]

CanStart == BagCardinality(inflight) < MaxInflight

Advance(r, s) == inflight' = (inflight (-) SetToBag({r})) (+) SetToBag({s})
Finish(r)     == inflight' = inflight (-) SetToBag({r})

Waiting(kind, pc) == {r \in BagToSet(inflight) : r.kind = kind /\ r.pc = pc}

\* ------------------------------------------------------ table operators
Exists(oid) == oid \in 1..Len(orders)

\* .from('cart').select(...).eq('user_id', uid)
CartOf(c, uid) == {row \in c : row.user_id = uid}

\* .from('cart').delete().eq('user_id', uid)
DeleteCart(c, uid) == {row \in c : row.user_id # uid}

\* .from('cart').upsert({user_id, product_id, quantity}, {onConflict: 'user_id,product_id'})
UpsertCart(c, uid, pid, qty) ==
  {row \in c : ~(row.user_id = uid /\ row.product_id = pid)}
    \cup {[user_id |-> uid, product_id |-> pid, quantity |-> qty]}

\* rpc('decrement_stock', {product_id, quantity})
decrement_stock(s, pid, qty) == [s EXCEPT ![pid] = @ - qty]

\* .from('orders').update(fields).eq('id', oid): no row matches an unknown id
UpdateOrder(ords, oid, fields) ==
  IF oid \in 1..Len(ords)
    THEN [ords EXCEPT ![oid] =
            [f \in DOMAIN @ |-> IF f \in DOMAIN fields THEN fields[f] ELSE @[f]]]
    ELSE ords


\* --------------------------------------------------- webhook signatures
PAYSTACK_SECRET_KEY == 7

EventCode(e) == IF e = "charge.success" THEN 0 ELSE 1
UserCode(u)  == IF u = "u1" THEN 1 ELSE IF u = "u2" THEN 2 ELSE 0
RefCode(r)   == r.oid * (MaxClock + 2) + (r.t + 1)
MetaCode(m)  == m.order_id * 3 + UserCode(m.user_id)

\* The raw request body, as the byte string the signature is computed over:
\* distinct events serialise to distinct bodies.
RawBody(b) ==
  EventCode(b.event)
    + 2 * (RefCode(b.reference)
             + (MaxRacing + 1) * (MaxClock + 2) * MetaCode(b.metadata))

\* crypto.createHmac('sha512', secret).update(body).digest('hex'): a keyed
\* digest without collisions over the bodies of the model.
Hmac(secret, raw) == (secret * (raw + 1)) % 1009

NoSignature == 0 - 1     \* the request carries no x-paystack-signature header

\* What the gateway sends for the transaction `r`, which settled as txns[r]:
\* the metadata is the one the initialize call attached to it.
GatewayEvent(r) ==
  [event     |-> IF txns[r] = "success" THEN "charge.success" ELSE "charge.failed",
   reference |-> r,
   metadata  |-> [order_id |-> r.oid, user_id |-> orders[r.oid].user_id]]

\* Events of transactions started elsewhere on the same gateway account:
\* without metadata, or with the order id of another shop's order.
ForeignEvents ==
  {[event |-> e, reference |-> ForeignRef, metadata |-> NoMeta] :
     e \in {"charge.success", "charge.failed"}}
    \cup {[event |-> "charge.success", reference |-> ForeignRef,
           metadata |-> [order_id |-> MaxRacing + 1, user_id |-> "u2"]]}

\* The events about transactions of this backend that have settled.
SettledEvents ==
  {GatewayEvent(r) : r \in {x \in AllRefs : txns[x] \in {"success", "failed"}}}

GatewayEvents == SettledEvents \cup ForeignEvents

\* Bodies anyone can post: any event about any order of the table.
ForgedEvents ==
  {[event |-> e, reference |-> r,
    metadata |-> [order_id |-> r.oid, user_id |-> orders[r.oid].user_id]] :
     e \in {"charge.success", "charge.failed"},
     r \in {x \in AllRefs : Exists(x.oid)}}

\* Signatures a sender without the secret can attach: none, or one copied
\* from an event the gateway signed.
StaleSignatures ==
  {NoSignature} \cup {Hmac(PAYSTACK_SECRET_KEY, RawBody(b)) : b \in SettledEvents}

\* The check left out: every request passes.
SignatureUnchecked(body, signature) == TRUE

\* hash !== signature
SignatureValid(body, signature) ==
  Hmac(PAYSTACK_SECRET_KEY, RawBody(body)) = signature

\* -------------------------------------------------------------- pricing
\* A string of a request body: its text in lower case and without the blanks
\* around it, whether it has upper-case letters, whether it has blanks around.
Str(text) == [text |-> text, caps |-> FALSE, padded |-> FALSE]

toLowerCase(s) == [s EXCEPT !.caps = FALSE]
trim(s)        == [s EXCEPT !.padded = FALSE]

\* !s: undefined or the empty string
Falsy(s) == s = Str("")

nearbyStates == {Str(t) : t \in {"ogun", "oyo", "osun", "ondo", "ekiti", "edo"}}

\* calculateDeliveryFee(state), in naira
calculateDeliveryFee(state) ==
  IF Falsy(state)
    THEN 9000
  ELSE LET normalizedState == trim(toLowerCase(state)) IN
    IF normalizedState = Str("lagos")
      THEN 10000
    ELSE IF normalizedState \in nearbyStates
      THEN 23000
    ELSE 27000

nigerianStates ==
  {Str(t) : t \in
     {"abia", "adamawa", "akwa ibom", "anambra", "bauchi", "bayelsa",
      "benue", "borno", "cross river", "delta", "ebonyi", "edo",
      "ekiti", "enugu", "gombe", "imo", "jigawa", "kaduna",
      "kano", "katsina", "kebbi", "kogi", "kwara", "lagos",
      "nasarawa", "niger", "ogun", "ondo", "osun", "oyo",
      "plateau", "rivers", "sokoto", "taraba", "yobe", "zamfara",
      "fct", "abuja"}}

\* validateNigerianState(state)
validateNigerianState(state) == toLowerCase(state) \in nigerianStates

\* Money is counted in kobo, the precision of the price and total columns
\* (1 naira = 100 kobo); an amount that has not been rounded yet is counted in
\* hundredths of a kobo.
Kobo(naira) == naira * 100

\* Math.round(x * 100) / 100 of an amount x given in hundredths of a kobo:
\* the nearest kobo, a half going up.
Round2(x) == (x + 50) \div 100

\* The sum of the unit prices, whatever the quantities.
RECURSIVE SubtotalOfUnitPrices(_, _)
SubtotalOfUnitPrices(items, i) ==
  IF i > Len(items)
    THEN 0
    ELSE items[i].price + SubtotalOfUnitPrices(items, i + 1)

\* items.reduce((total, item) => total + item.price * item.quantity, 0)
RECURSIVE Subtotal(_, _)
Subtotal(items, i) ==
  IF i > Len(items)
    THEN 0
    ELSE items[i].price * items[i].quantity + Subtotal(items, i + 1)

\* A row of the discounts table as the caller hands it over: its percentage, and
\* whether its valid_until lies before the day of the call.
NoDiscount == [percentage |-> 0, expired |-> FALSE]     \* discount = null

\* calculateOrderTotals(items, state, discount)
calculateOrderTotals(items, state, discount) ==
  LET subtotal       == Subtotal(items, 1)
      deliveryFee    == calculateDeliveryFee(state)
      discountAmount == IF discount # NoDiscount /\ discount.percentage # 0
                          THEN subtotal * discount.percentage
                          ELSE 0
      total          == subtotal * 100 + Kobo(deliveryFee) * 100 - discountAmount
  IN  [subtotal       |-> Round2(subtotal * 100),
       deliveryFee    |-> deliveryFee,
       discountAmount |-> Round2(discountAmount),
       total          |-> Round2(total)]

NoTotals == [subtotal |-> 0, deliveryFee |-> 0, discountAmount |-> 0, total |-> -1]
NoCall   == [items |-> <<>>, state |-> Str(""), discount |-> NoDiscount,
             totals |-> NoTotals]

\* ------------------------------------------------------------ the start
\* products.price of the initial catalogue, in kobo
Price(pid) == IF pid = "pA" THEN 250000 ELSE 120050

InitTables ==
  /\ orders = <<>>
  /\ cart = {}
  /\ stock = [p \in Products |-> InitStock]
  /\ price = [p \in Products |-> Price(p)]
  /\ txns = [r \in AllRefs |-> "none"]
  /\ now = 0
  /\ inflight = EmptyBag
  /\ clears = [o \in OrderIds |-> 0]
  /\ decs = [o \in OrderIds |-> [p \in Products |-> 0]]
  /\ stockErr = [o \in OrderIds |-> FALSE]
  /\ applied = [o \in OrderIds |-> [webhook |-> 0, verify |-> 0]]

Init == InitTables /\ calc = NoCall

\* The tables.
DB == [orders |-> orders, cart |-> cart, stock |-> stock, price |-> price]

\* What the first part of a handler comes to.
Answer(status)        == [status |-> status, db |-> DB, next |-> {}]
Write(status, tables) == [status |-> status, db |-> tables, next |-> {}]
GoOn(tables, request) == [status |-> 0, db |-> tables, next |-> {request}]

\* The step that carries it out.
Apply(result) ==
  /\ orders' = result.db.orders
  /\ cart' = result.db.cart
  /\ stock' = result.db.stock
  /\ price' = result.db.price
  /\ IF result.next = {}
       THEN UNCHANGED inflight
       ELSE CanStart /\ inflight' = inflight (+) SetToBag(result.next)

\* Date.now() moves on.  The clock is read only to build references, so the
\* step is taken once a reference has been built from the present value.
Tick ==
  /\ now < MaxClock
  /\ \E r \in AllRefs : r.t = now /\ txns[r] # "none"
  /\ now' = now + 1
  /\ UNCHANGED <<orders, cart, stock, price, txns, inflight, clears, decs, stockErr, applied, calc>>

\* The customer pays, or the payment is declined, on the gateway's page.
GatewaySettle(r, outcome) ==
  /\ txns[r] = "open"
  /\ txns' = [txns EXCEPT ![r] = outcome]
  /\ UNCHANGED <<orders, cart, stock, price, now, inflight, clears, decs, stockErr, applied, calc>>

\* ----------------------------------------------------------------- cart
\* POST /api/cart/add
CartAddResult(uid, pid, quantity) ==
  IF stock[pid] < quantity
    THEN Answer(400)
    ELSE Write(200, [DB EXCEPT !.cart = UpsertCart(cart, uid, pid, quantity)])

CartAdd(uid, pid, quantity) ==
  /\ Apply(CartAddResult(uid, pid, quantity))
  /\ UNCHANGED <<txns, now, clears, decs, stockErr, applied, calc>>

\* A cart row's id: the row is the one of a user and a product.
RowId(uid, pid) == [user_id |-> uid, product_id |-> pid]
IdOf(row)       == RowId(row.user_id, row.product_id)

\* The removal that puts the row's quantity back on the shelf.
CartRemoveRestocking(uid, id) ==
  Write(200, [DB EXCEPT !.cart  = {row \in cart : ~(IdOf(row) = id /\ row.user_id = uid)},
                        !.stock = [stock EXCEPT ![id.product_id] = @ + 1]])

\* DELETE /api/cart/remove/:id
CartRemoveResult(uid, id) ==
  Write(200, [DB EXCEPT !.cart = {row \in cart : ~(IdOf(row) = id /\ row.user_id = uid)}])

CartRemove(uid, id) ==
  /\ Apply(CartRemoveResult(uid, id))
  /\ UNCHANGED <<txns, now, clears, decs, stockErr, applied, calc>>

\* PUT /api/cart/update/:id.  The stock check reads the row by id alone; the
\* update, by id and user, finds no row of another user and single() fails.
CartUpdateResult(uid, id, quantity) ==
  IF quantity < 0
    THEN Answer(400)
  ELSE IF quantity = 0
    THEN CartRemoveResult(uid, id)
  ELSE IF ~(\E row \in cart : IdOf(row) = id)
    THEN Answer(500)
  ELSE IF stock[id.product_id] < quantity
    THEN Answer(400)
  ELSE IF id.user_id # uid
    THEN Answer(500)
  ELSE Write(200, [DB EXCEPT !.cart = UpsertCart(cart, uid, id.product_id, quantity)])

CartUpdate(uid, id, quantity) ==
  /\ Apply(CartUpdateResult(uid, id, quantity))
  /\ UNCHANGED <<txns, now, clears, decs, stockErr, applied, calc>>

\* DELETE /api/cart/clear
CartClearResult(uid) == Write(200, [DB EXCEPT !.cart = DeleteCart(cart, uid)])

CartClear(uid) ==
  /\ Apply(CartClearResult(uid))
  /\ UNCHANGED <<txns, now, clears, decs, stockErr, applied, calc>>

\* ------------------------------------------------------- order creation
\* orderItems: one line per cart row, in the order the rows are returned.
OrderItems(rows) ==
  LET ps == SelectSeq(ProductSeq, LAMBDA p : \E row \in rows : row.product_id = p)
  IN  [i \in 1..Len(ps) |->
         [product_id |-> ps[i],
          quantity   |-> (CHOOSE row \in rows : row.product_id = ps[i]).quantity,
          price      |-> price[ps[i]]]]

\* The inserted row that answers for every status: a paid order.
NewOrderPaid(uid, items, totals) ==
  [user_id |-> uid, order_items |-> items, subtotal |-> totals.subtotal,
   delivery_fee |-> Kobo(totals.deliveryFee), total |-> totals.total,
   payment_status |-> "success", order_status |-> "pending",
   payment_reference |-> NoRef, created_at |-> now]

\* The row inserted: the columns subtotal, delivery_fee and total in kobo,
\* created_at DEFAULT NOW().
NewOrder(uid, items, totals) ==
  [user_id |-> uid, order_items |-> items, subtotal |-> totals.subtotal,
   delivery_fee |-> Kobo(totals.deliveryFee), total |-> totals.total,
   payment_status |-> "pending", order_status |-> "pending",
   payment_reference |-> NoRef, created_at |-> now]

\* No region is refused.
StateNeverRefused(state) == FALSE

\* !validateNigerianState(state)
StateRefused(state) == ~validateNigerianState(state)

\* The stock check left out.
StockUnchecked(rows) == FALSE

\* item.products.stock < item.quantity for some item of the cart
InsufficientStock(rows) == \E row \in rows : stock[row.product_id] < row.quantity

\* The creation that sets the ordered quantities aside: the stock is taken
\* when the order is inserted.
CreateOrderReserving(uid, body) ==
  LET rows == CartOf(cart, uid) IN
    IF Falsy(body.state) \/ ~body.city \/ ~body.address \/ ~body.email
         \/ StateRefused(body.state) \/ rows = {} \/ InsufficientStock(rows)
      THEN Answer(400)
      ELSE GoOn([DB EXCEPT
                   !.orders =
                      Append(orders,
                             NewOrder(uid, OrderItems(rows),
                                      calculateOrderTotals(OrderItems(rows), body.state,
                                                           NoDiscount))),
                   !.stock =
                      [p \in Products |->
                         IF \E row \in rows : row.product_id = p
                           THEN stock[p] - (CHOOSE row \in rows : row.product_id = p).quantity
                           ELSE stock[p]]],
                Req("create", "initialize", uid, Len(orders) + 1, NoRef, 0))

\* POST /api/orders/create, up to the insert of the order.  Of the request
\* body: the state, and whether city, address and email are there.
CreateOrderResult(uid, body) ==
  LET rows == CartOf(cart, uid) IN
    IF Falsy(body.state) \/ ~body.city \/ ~body.address
      THEN Answer(400)
    ELSE IF ~body.email
      THEN Answer(400)
    ELSE IF StateRefused(body.state)
      THEN Answer(400)
    ELSE IF rows = {}
      THEN Answer(400)
    ELSE IF InsufficientStock(rows)
      THEN Answer(400)
    ELSE GoOn([DB EXCEPT !.orders =
                 Append(orders,
                        NewOrder(uid, OrderItems(rows),
                                 calculateOrderTotals(OrderItems(rows), body.state,
                                                      NoDiscount)))],
              Req("create", "initialize", uid, Len(orders) + 1, NoRef, 0))

CreateOrder(uid, body) ==
  /\ Len(orders) < MaxOrders
  /\ Apply(CreateOrderResult(uid, body))
  /\ UNCHANGED <<txns, now, clears, decs, stockErr, applied, calc>>

\* The same request where a second checkout follows before the first is paid.
CreateRacingOrder(uid, body) ==
  /\ Len(orders) < MaxRacing
  /\ Apply(CreateOrderResult(uid, body))
  /\ UNCHANGED <<txns, now, clears, decs, stockErr, applied, calc>>

\* POST /api/orders/create with its awaits one by one: after the insert the
\* handler sends the order confirmation, and then calls the gateway.  Where
\* CreateOrder is the step, the email, which reads and writes no table, is
\* taken with the insert.
CreateOrderThenEmail(uid, body) ==
  /\ Len(orders) < MaxOrders
  /\ Apply([CreateOrderResult(uid, body) EXCEPT
             !.next = {[q EXCEPT !.pc = "email"] : q \in @}])
  /\ UNCHANGED <<txns, now, clears, decs, stockErr, applied, calc>>

\* sendOrderConfirmationEmail(order, userEmail, userName): an error resend
\* reports and an exception it throws are both logged, and the function
\* returns.  `sent` tells whether the email went out.
sendOrderConfirmationEmail(sent) == [success |-> sent]

\* The handler whose email is awaited with nothing to catch what it throws:
\* the request ends in the handler's catch, with 500.
CreateOrderEmailThrowing(r, sent) ==
  IF sent
    THEN [status |-> 0, orders |-> orders,
          next |-> {[r EXCEPT !.pc = "initialize", !.seen = "sent"]}]
    ELSE [status |-> 500, orders |-> orders, next |-> {}]

\* ... the try around the email: whatever comes of it, the handler goes on to
\* the initialize call.  The request keeps whether the email went out.
CreateOrderEmailResult(r, sent) ==
  [status |-> 0, orders |-> orders,
   next |-> {[r EXCEPT !.pc = "initialize",
                       !.seen = IF sendOrderConfirmationEmail(sent).success
                                  THEN "sent" ELSE "unsent"]}]

CreateOrderEmail(r, sent) ==
  /\ r \in Waiting("create", "email")
  /\ orders' = CreateOrderEmailResult(r, sent).orders
  /\ inflight' = (inflight (-) SetToBag({r}))
                   (+) SetToBag(CreateOrderEmailResult(r, sent).next)
  /\ UNCHANGED <<cart, stock, price, txns, now, clears, decs, stockErr, applied, calc>>

\* What a handler at its initialize call asks of the gateway: the amount in
\* kobo, the reference and the metadata.  POST /create and retry-payment send
\* Math.round(order.total * 100), POST /initialize Math.round(amount * 100) of
\* its request body.
InitializeRequest(r) ==
  [amount    |-> IF r.kind = "initialize" THEN r.amount ELSE orders[r.oid].total,
   reference |-> Reference(r.oid, now),
   metadata  |-> [order_id |-> r.oid, user_id |-> r.uid]]

\* The gateway refuses a reference it has seen before; any call can also
\* fail on the network.
InitializeAccepted(r, ok) == ok /\ txns[r] = "none"

\* .update({ order_status: 'payment_failed' })
InitializeFailedFields == [order_status |-> "payment_failed"]

\* POST /api/orders/create, from the Paystack initialize call on: 201 with
\* the reference saved, or 500, naming the order, with the order marked
\* payment_failed.
CreateOrderInitializeResult(r, ok) ==
  LET reference == InitializeRequest(r).reference IN
    IF InitializeAccepted(reference, ok)
      THEN [status |-> 201, order_id |-> r.oid,
            orders |-> UpdateOrder(orders, r.oid, [payment_reference |-> reference]),
            txns   |-> [txns EXCEPT ![reference] = "open"]]
      ELSE [status |-> 500, order_id |-> r.oid,
            orders |-> UpdateOrder(orders, r.oid, InitializeFailedFields),
            txns   |-> txns]

CreateOrderInitialize(r, ok) ==
  /\ r \in Waiting("create", "initialize")
  /\ orders' = CreateOrderInitializeResult(r, ok).orders
  /\ txns' = CreateOrderInitializeResult(r, ok).txns
  /\ Finish(r)
  /\ UNCHANGED <<cart, stock, price, now, clears, decs, stockErr, applied, calc>>

\* No order is ever taken for paid.
NeverPaid(order) == FALSE

\* order.payment_status === 'success'
AlreadyPaid(order) == order.payment_status = "success"

\* POST /api/orders/:id/retry-payment, up to the check of the order read.
\* `email` tells whether the request body carries one.
RetryPaymentResult(uid, oid, email) ==
  IF ~email
    THEN Answer(400)
  ELSE IF ~(Exists(oid) /\ orders[oid].user_id = uid)
    THEN Answer(404)
  ELSE IF AlreadyPaid(orders[oid])
    THEN Answer(400)
  ELSE GoOn(DB, Req("retry", "initialize", uid, oid, NoRef, 0))

RetryPayment(uid, oid, email) ==
  /\ Apply(RetryPaymentResult(uid, oid, email))
  /\ UNCHANGED <<txns, now, clears, decs, stockErr, applied, calc>>

\* The retry that puts the order back to order_status = pending.
RetryInitializeResetting(r, ok) ==
  LET reference == InitializeRequest(r).reference IN
    IF InitializeAccepted(reference, ok)
      THEN [status |-> 200, order_id |-> r.oid,
            orders |-> UpdateOrder(orders, r.oid, [payment_reference |-> reference,
                                                   order_status |-> "pending"]),
            txns   |-> [txns EXCEPT ![reference] = "open"]]
      ELSE [status |-> 500, order_id |-> r.oid, orders |-> orders, txns |-> txns]

\* POST /api/orders/:id/retry-payment, from the Paystack initialize call on:
\* 200 with the new reference saved, or 500.
RetryInitializeResult(r, ok) ==
  LET reference == InitializeRequest(r).reference IN
    IF InitializeAccepted(reference, ok)
      THEN [status |-> 200, order_id |-> r.oid,
            orders |-> UpdateOrder(orders, r.oid, [payment_reference |-> reference]),
            txns   |-> [txns EXCEPT ![reference] = "open"]]
      ELSE [status |-> 500, order_id |-> r.oid, orders |-> orders, txns |-> txns]

RetryInitialize(r, ok) ==
  /\ r \in Waiting("retry", "initialize")
  /\ orders' = RetryInitializeResult(r, ok).orders
  /\ txns' = RetryInitializeResult(r, ok).txns
  /\ Finish(r)
  /\ UNCHANGED <<cart, stock, price, now, clears, decs, stockErr, applied, calc>>

\* POST /api/paystack/initialize of the older router, up to the check of the
\* order read.  `amount` is the one of the request body, in kobo; `filled`
\* tells whether order_id, email and amount are all there.
InitializePaymentResult(uid, oid, amount, filled) ==
  IF ~filled \/ amount = 0
    THEN Answer(400)
  ELSE IF ~(Exists(oid) /\ orders[oid].user_id = uid)
    THEN Answer(404)
  ELSE GoOn(DB, [Req("initialize", "initialize", uid, oid, NoRef, 0)
                   EXCEPT !.amount = amount])

InitializePayment(uid, oid, amount, filled) ==
  /\ Apply(InitializePaymentResult(uid, oid, amount, filled))
  /\ UNCHANGED <<txns, now, clears, decs, stockErr, applied, calc>>

\* ... from the Paystack initialize call on: 200 with the reference saved,
\* 400 when the gateway refused, 500 when it could not be reached.
InitializePaymentCallResult(r, ok) ==
  LET reference == InitializeRequest(r).reference IN
    IF InitializeAccepted(reference, ok)
      THEN [status |-> 200, order_id |-> r.oid,
            orders |-> UpdateOrder(orders, r.oid, [payment_reference |-> reference]),
            txns   |-> [txns EXCEPT ![reference] = "open"]]
      ELSE [status |-> IF ok THEN 400 ELSE 500, order_id |-> r.oid,
            orders |-> orders, txns |-> txns]

InitializePaymentCall(r, ok) ==
  /\ r \in Waiting("initialize", "initialize")
  /\ orders' = InitializePaymentCallResult(r, ok).orders
  /\ txns' = InitializePaymentCallResult(r, ok).txns
  /\ Finish(r)
  /\ UNCHANGED <<cart, stock, price, now, clears, decs, stockErr, applied, calc>>

\* ------------------------------------------------------- reconciliation
\* History of the success triggers that ran to completion on an order, counted
\* up to MaxDeliveries each.
Record(oid, trigger) ==
  IF oid \in OrderIds /\ applied[oid][trigger] < MaxDeliveries
    THEN [applied EXCEPT ![oid][trigger] = @ + 1]
    ELSE applied

\* The charge.success events about an order the gateway has delivered so far.
Deliveries(oid) ==
  IF oid \in OrderIds
    THEN applied[oid].webhook
           + BagCardinality([r \in {x \in BagToSet(inflight) :
                                      x.kind \in {"webhook", "inline"} /\ x.oid = oid}
                               |-> inflight[r]])
    ELSE 0

\* The fields the handlers write.
\* The update that saves the reference and leaves payment_status as it is.
WebhookReferenceOnly(reference) ==
  [order_status |-> "processing", payment_reference |-> reference]

WebhookSuccessFields(reference) ==
  [payment_status |-> "success", order_status |-> "processing",
   payment_reference |-> reference]

WebhookFailedFields(reference) ==
  [payment_status |-> "failed", order_status |-> "cancelled",
   payment_reference |-> reference]

InlineSuccessFields(reference) ==
  [payment_status |-> "success", payment_reference |-> reference]

InlineFailedFields(reference) ==
  [payment_status |-> "failed", payment_reference |-> reference]

VerifySuccessFields ==
  [payment_status |-> "success", order_status |-> "processing"]

\* metadata?.order_id && metadata?.user_id
HasOrderAndUser(metadata) == metadata.order_id # 0 /\ metadata.user_id # "none"

\* POST /api/paystack/webhook of the router: the signature check, and the
\* handler up to its first write.
WebhookResult(body, signature) ==
  IF ~SignatureValid(body, signature)
    THEN Answer(401)
  ELSE IF body.event = "charge.success" /\ HasOrderAndUser(body.metadata)
    THEN IF ~Exists(body.metadata.order_id)
           THEN Answer(404)
           ELSE GoOn(DB, [Req("webhook", "update", body.metadata.user_id,
                              body.metadata.order_id, body.reference, 0)
                            EXCEPT !.seen = orders[body.metadata.order_id].payment_status])
  ELSE IF body.event = "charge.failed" /\ body.metadata.order_id # 0
    THEN Write(200, [DB EXCEPT !.orders =
                       UpdateOrder(orders, body.metadata.order_id,
                                   WebhookFailedFields(body.reference))])
  ELSE Answer(200)

WebhookReceive(body, signature) ==
  /\ WebhookResult(body, signature).next # {}
       => Deliveries(body.metadata.order_id) < MaxDeliveries
  /\ Apply(WebhookResult(body, signature))
  /\ UNCHANGED <<txns, now, clears, decs, stockErr, applied, calc>>

\* ... the update of the order row, whatever its payment_status is.
WebhookUpdateOrder(r) ==
  /\ r \in Waiting("webhook", "update")
  /\ orders' = UpdateOrder(orders, r.oid, WebhookSuccessFields(r.ref))
  /\ Advance(r, [r EXCEPT !.pc = "cart"])
  /\ UNCHANGED <<cart, stock, price, txns, now, clears, decs, stockErr, applied, calc>>

\* ... the delete of the cart rows of metadata.user_id.
WebhookClearCart(r) ==
  /\ r \in Waiting("webhook", "cart")
  /\ cart' = DeleteCart(cart, r.uid)
  /\ clears' = [clears EXCEPT ![r.oid] = @ + 1]
  /\ Advance(r, [r EXCEPT !.pc = "stock", !.idx = 1])
  /\ UNCHANGED <<orders, stock, price, txns, now, decs, stockErr, applied, calc>>

\* The loop that a failed decrement_stock call ends: what the call threw is
\* caught by the handler, which answers 500.
WebhookDecrementStockAborting(r, ok) ==
  LET items == orders[r.oid].order_items
      item  == items[r.idx]
  IN  IF ~ok
        THEN [status |-> 500, orders |-> orders, stock |-> stock, next |-> {}]
        ELSE [status |-> IF r.idx < Len(items) THEN 0 ELSE 200,
              orders |-> orders,
              stock  |-> decrement_stock(stock, item.product_id, item.quantity),
              next   |-> IF r.idx < Len(items) THEN {[r EXCEPT !.idx = @ + 1]} ELSE {}]

\* ... one turn of the loop over order.order_items (the items read before the
\* update; no handler writes order_items), and the 200 after the last.  `ok`
\* is FALSE when the call returns a stockError, which is logged.
WebhookDecrementStockResult(r, ok) ==
  LET items == orders[r.oid].order_items
      item  == items[r.idx]
  IN  [status |-> IF r.idx < Len(items) THEN 0 ELSE 200,
       orders |-> orders,
       stock  |-> IF ok
                    THEN decrement_stock(stock, item.product_id, item.quantity)
                    ELSE stock,
       next   |-> IF r.idx < Len(items) THEN {[r EXCEPT !.idx = @ + 1]} ELSE {}]

WebhookDecrementStock(r, ok) ==
  /\ r \in Waiting("webhook", "stock")
  /\ LET result == WebhookDecrementStockResult(r, ok)
         item   == orders[r.oid].order_items[r.idx]
     IN  /\ orders' = result.orders
         /\ stock' = result.stock
         /\ IF ok
              THEN /\ decs' = [decs EXCEPT ![r.oid][item.product_id] = @ + 1]
                   /\ UNCHANGED stockErr
              ELSE /\ stockErr' = [stockErr EXCEPT ![r.oid] = TRUE]
                   /\ UNCHANGED decs
         /\ inflight' = (inflight (-) SetToBag({r})) (+) SetToBag(result.next)
         /\ applied' = IF result.next = {} THEN Record(r.oid, "webhook") ELSE applied
  /\ UNCHANGED <<cart, price, txns, now, clears, calc>>

\* app.post('/api/paystack/webhook') of server.js: the signature check and
\* the handler up to and with its first write, which is the update.
InlineWebhookResult(body, signature) ==
  IF ~SignatureValid(body, signature)
    THEN Answer(401)
  ELSE IF body.event = "charge.success" /\ HasOrderAndUser(body.metadata)
    THEN IF ~Exists(body.metadata.order_id)
           THEN Answer(500)
           ELSE GoOn([DB EXCEPT !.orders =
                        UpdateOrder(orders, body.metadata.order_id,
                                    InlineSuccessFields(body.reference))],
                     [Req("inline", "cart", body.metadata.user_id,
                          body.metadata.order_id, body.reference, 0)
                        EXCEPT !.seen = orders[body.metadata.order_id].payment_status])
  ELSE IF body.event = "charge.failed" /\ body.metadata.order_id # 0
    THEN Write(200, [DB EXCEPT !.orders =
                       UpdateOrder(orders, body.metadata.order_id,
                                   InlineFailedFields(body.reference))])
  ELSE Answer(200)

InlineWebhookReceive(body, signature) ==
  /\ InlineWebhookResult(body, signature).next # {}
       => Deliveries(body.metadata.order_id) < MaxDeliveries
  /\ Apply(InlineWebhookResult(body, signature))
  /\ UNCHANGED <<txns, now, clears, decs, stockErr, applied, calc>>

\* ... the delete of the cart rows, and the 200.
InlineWebhookClearCart(r) ==
  /\ r \in Waiting("inline", "cart")
  /\ cart' = DeleteCart(cart, r.uid)
  /\ clears' = [clears EXCEPT ![r.oid] = @ + 1]
  /\ Finish(r)
  /\ applied' = Record(r.oid, "webhook")
  /\ UNCHANGED <<orders, stock, price, txns, now, decs, stockErr, calc>>

\* The read by the reference alone, whoever owns the order.
OrderByReferenceAlone(reference, uid) ==
  {o \in 1..Len(orders) : orders[o].payment_reference = reference}

\* .from('orders').select('*').eq('payment_reference', reference)
\*   .eq('user_id', uid).single()
OrderByReference(reference, uid) ==
  {o \in 1..Len(orders) : /\ orders[o].payment_reference = reference
                          /\ orders[o].user_id = uid}

\* The call is taken to have gone through whatever happened to it.
VerifyCallNeverFails(answered) == FALSE

\* axios.get(...) throws without a response: a timeout, or no connection.
VerifyCallFailed(answered) == ~answered

\* POST /api/paystack/verify: the call of the gateway and the read of the
\* order.  `answered` is FALSE when the call times out or the network fails;
\* the gateway answers with an error for a reference it does not know.
VerifyPaymentResult(uid, reference, answered) ==
  IF VerifyCallFailed(answered)
    THEN Answer(500)
  ELSE IF txns[reference] = "none"
    THEN Answer(400)
  ELSE IF txns[reference] # "success"
    THEN Answer(400)
  ELSE IF Cardinality(OrderByReference(reference, uid)) # 1
    THEN Answer(404)
  ELSE LET oid == CHOOSE o \in OrderByReference(reference, uid) : TRUE IN
    IF orders[oid].payment_status = "success"
      THEN Answer(200)
      ELSE GoOn(DB, [Req("verify", "update", uid, oid, reference, 0)
                       EXCEPT !.seen = orders[oid].payment_status])

VerifyPayment(uid, reference, answered) ==
  /\ Apply(VerifyPaymentResult(uid, reference, answered))
  /\ applied' = IF VerifyPaymentResult(uid, reference, answered).status = 200
                  THEN Record(CHOOSE o \in OrderByReference(reference, uid) : TRUE,
                              "verify")
                  ELSE applied
  /\ UNCHANGED <<txns, now, clears, decs, stockErr, calc>>

\* ... the update of the order row.
VerifyUpdateOrder(r) ==
  /\ r \in Waiting("verify", "update")
  /\ orders' = UpdateOrder(orders, r.oid, VerifySuccessFields)
  /\ Advance(r, [r EXCEPT !.pc = "cart"])
  /\ UNCHANGED <<cart, stock, price, txns, now, clears, decs, stockErr, applied, calc>>

\* ... the delete of the cart rows of req.user.id, and the 200.
VerifyClearCart(r) ==
  /\ r \in Waiting("verify", "cart")
  /\ cart' = DeleteCart(cart, r.uid)
  /\ clears' = [clears EXCEPT ![r.oid] = @ + 1]
  /\ Finish(r)
  /\ applied' = Record(r.oid, "verify")
  /\ UNCHANGED <<orders, stock, price, txns, now, decs, stockErr, calc>>

\* .from('orders').update(fields).eq('payment_reference', reference)
UpdateByReference(ords, reference, fields) ==
  [o \in 1..Len(ords) |->
     IF ords[o].payment_reference = reference
       THEN [f \in DOMAIN ords[o] |->
               IF f \in DOMAIN fields THEN fields[f] ELSE ords[o][f]]
       ELSE ords[o]]

\* The manual verifications of an order by GET that have run or are running.
Verifications(oid) ==
  IF oid \in OrderIds
    THEN applied[oid].verify
           + BagCardinality([r \in {x \in BagToSet(inflight) :
                                      x.kind = "reference" /\ x.oid = oid}
                               |-> inflight[r]])
    ELSE 0

\* GET /api/paystack/verify/:reference of the older router: the call of the
\* gateway, which throws for a reference it does not know, and the update of
\* the rows with this payment_reference, whoever owns them.  The order_id
\* answered is the one of the transaction's metadata.
VerifyReferenceResult(uid, reference, answered) ==
  IF VerifyCallFailed(answered) \/ txns[reference] = "none"
    THEN Answer(500)
  ELSE IF txns[reference] # "success"
    THEN Answer(400)
  ELSE GoOn([DB EXCEPT !.orders =
               UpdateByReference(orders, reference, [payment_status |-> "success"])],
            Req("reference", "cart", uid, reference.oid, reference, 0))

VerifyReference(uid, reference, answered) ==
  /\ VerifyReferenceResult(uid, reference, answered).next # {}
       => Verifications(reference.oid) < MaxDeliveries
  /\ Apply(VerifyReferenceResult(uid, reference, answered))
  /\ UNCHANGED <<txns, now, clears, decs, stockErr, applied, calc>>

\* ... the delete of the cart rows of req.user.id, and the 200.
VerifyReferenceClearCart(r) ==
  /\ r \in Waiting("reference", "cart")
  /\ cart' = DeleteCart(cart, r.uid)
  /\ clears' = [clears EXCEPT ![r.oid] = @ + 1]
  /\ Finish(r)
  /\ applied' = Record(r.oid, "verify")
  /\ UNCHANGED <<orders, stock, price, txns, now, decs, stockErr, calc>>

\* GET /api/paystack/status/:reference: the order of the caller with this
\* payment_reference, or 404.
PaymentStatusResult(uid, reference) ==
  IF Cardinality(OrderByReference(reference, uid)) # 1
    THEN Answer(404)
    ELSE Answer(200)

PaymentStatusBody(uid, reference) ==
  LET oid == CHOOSE o \in OrderByReference(reference, uid) : TRUE
  IN  [order_id       |-> oid,
       payment_status |-> orders[oid].payment_status,
       order_status   |-> orders[oid].order_status,
       is_paid        |-> orders[oid].payment_status = "success",
       total          |-> orders[oid].total,
       created_at     |-> orders[oid].created_at]

PaymentStatus(uid, reference) ==
  /\ Apply(PaymentStatusResult(uid, reference))
  /\ UNCHANGED <<txns, now, clears, decs, stockErr, applied, calc>>

\* ---------------------------------------------------------------- admin
\* Every status an order can be at taken for one an admin may set.
everyStatus == OrderStatuses

validStatuses == {"pending", "shipped", "delivered", "cancelled"}

\* The cancellation that marks the payment as failed with it.
AdminUpdateOrderStatusRefunding(oid, order_status) ==
  IF order_status \notin validStatuses
    THEN Answer(400)
  ELSE IF ~Exists(oid)
    THEN Answer(500)
  ELSE Write(200, [DB EXCEPT !.orders =
                     UpdateOrder(orders, oid,
                                 IF order_status = "cancelled"
                                   THEN [order_status |-> order_status,
                                         payment_status |-> "failed"]
                                   ELSE [order_status |-> order_status])])

\* PUT /api/admin/orders/:id/status
AdminUpdateOrderStatusResult(oid, order_status) ==
  IF order_status \notin validStatuses
    THEN Answer(400)
  ELSE IF ~Exists(oid)
    THEN Answer(500)
  ELSE Write(200, [DB EXCEPT !.orders =
                     UpdateOrder(orders, oid, [order_status |-> order_status])])

AdminUpdateOrderStatus(oid, order_status) ==
  /\ Apply(AdminUpdateOrderStatusResult(oid, order_status))
  /\ UNCHANGED <<txns, now, clears, decs, stockErr, applied, calc>>

\* The edit with the order lines referring to the product: the lines of the
\* stored orders take the new price.
AdminUpdateProductRepricing(pid, filled, n, p) ==
  IF ~filled
    THEN Answer(400)
    ELSE Write(200,
               [DB EXCEPT !.stock = [stock EXCEPT ![pid] = n],
                          !.price = [price EXCEPT ![pid] = p],
                          !.orders =
                             [o \in 1..Len(orders) |->
                                [orders[o] EXCEPT !.order_items =
                                   [i \in 1..Len(@) |->
                                      IF @[i].product_id = pid
                                        THEN [@[i] EXCEPT !.price = p]
                                        ELSE @[i]]]]])

\* PUT /api/admin/products/:id with the product's other fields as they are:
\* `filled` tells whether name, category_id, price and stock are all there
\* (the form's fields are strings, and '0' is one), stock is parseInt(stock)
\* and price parseFloat(price), here in kobo.
AdminUpdateProductResult(pid, filled, n, p) ==
  IF ~filled
    THEN Answer(400)
    ELSE Write(200, [DB EXCEPT !.stock = [stock EXCEPT ![pid] = n],
                               !.price = [price EXCEPT ![pid] = p]])

AdminUpdateProduct(pid, filled, n, p) ==
  /\ Apply(AdminUpdateProductResult(pid, filled, n, p))
  /\ UNCHANGED <<txns, now, clears, decs, stockErr, applied, calc>>

\* -------------------------------------------------------- specification
\* Request bodies of POST /create: a complete one, and ones that miss a field
\* or name a state the check refuses.
GoodBody == [state |-> [Str("lagos") EXCEPT !.caps = TRUE], city |-> TRUE,
             address |-> TRUE, email |-> TRUE]

Bodies ==
  {GoodBody,
   [GoodBody EXCEPT !.state = Str("")],
   [GoodBody EXCEPT !.city = FALSE],
   [GoodBody EXCEPT !.address = FALSE],
   [GoodBody EXCEPT !.email = FALSE],
   [GoodBody EXCEPT !.state = Str("texas")],
   [GoodBody EXCEPT !.state = [Str("lagos") EXCEPT !.padded = TRUE]]}

\* The requests that reach the webhook: the gateway's deliveries, signed with
\* the secret, and forged ones carrying no signature or a copied one.
WebhookRequests ==
  {<<b, Hmac(PAYSTACK_SECRET_KEY, RawBody(b))>> : b \in GatewayEvents}
    \cup (ForgedEvents \X StaleSignatures)

\* Of these, the ones posted: the gateway's deliveries about orders, and the
\* forged ones that claim a payment and carry no signature.
PostedRequests ==
  {<<b, Hmac(PAYSTACK_SECRET_KEY, RawBody(b))>> :
     b \in {e \in GatewayEvents : e.metadata.order_id # 0}}
    \cup {<<b, NoSignature>> : b \in {e \in ForgedEvents : e.event = "charge.success"}}

\* Values of order_status an admin's request body can carry.
RequestedStatuses == OrderStatuses \cup {"refunded", ""}

\* Amounts a caller of POST /initialize can put in the request body: the
\* total of an order on Lagos delivery, a single kobo, none.
Amounts == {Price("pA") + Kobo(calculateDeliveryFee(Str("lagos"))), 1, 0}

\* The references a caller can have got from an initialization.
IssuedRefs == {r \in OrderRefs : txns[r] # "none"}

\* Steps common to both versions of server.js: the requests of a shopper about
\* the cart rows and the order that are the shopper's own, and the admin's.
\* The requests that are refused whatever the tables hold (a quantity below
\* zero, the id of no row, another user's order or reference, a body without
\* email, a status the admin may not set) are made where the cart, order and
\* admin routers run on their own.
Common ==
  \/ Tick
  \/ \E r \in OrderRefs, outcome \in {"success", "failed"} : GatewaySettle(r, outcome)
  \/ \E u \in Shoppers, p \in Products, q \in 1..MaxQty : CartAdd(u, p, q)
  \/ \E u \in Shoppers, row \in cart, q \in 1..MaxQty : CartUpdate(u, IdOf(row), q)
  \/ \E u \in Shoppers, row \in cart : CartRemove(u, IdOf(row))
  \/ \E u \in Shoppers : CartClear(u)
  \/ \E u \in Shoppers, body \in Bodies : CreateOrder(u, body)
  \/ \E r \in BagToSet(inflight), ok \in BOOLEAN : CreateOrderInitialize(r, ok)
  \/ \E u \in Shoppers, o \in 1..MaxOrders : RetryPayment(u, o, TRUE)
  \/ \E r \in BagToSet(inflight), ok \in BOOLEAN : RetryInitialize(r, ok)
  \/ \E u \in Shoppers, r \in IssuedRefs : VerifyPayment(u, r, TRUE)
  \/ \E r \in BagToSet(inflight) : VerifyUpdateOrder(r)
  \/ \E r \in BagToSet(inflight) : VerifyClearCart(r)
  \/ \E o \in 1..MaxOrders, s \in {"shipped", "cancelled"} : AdminUpdateOrderStatus(o, s)

\* server.js mounting the paystack router: its webhook handles the events.
Next ==
  \/ Common
  \/ \E o \in 1..Len(orders) :
       /\ orders[o].payment_reference # NoRef
       /\ PaymentStatus(orders[o].user_id, orders[o].payment_reference)
  \/ \E w \in PostedRequests : WebhookReceive(w[1], w[2])
  \/ \E r \in BagToSet(inflight) : WebhookUpdateOrder(r)
  \/ \E r \in BagToSet(inflight) : WebhookClearCart(r)
  \/ \E r \in BagToSet(inflight), ok \in BOOLEAN : WebhookDecrementStock(r, ok)

Spec == Init /\ [][Next]_vars

\* server.js defining the webhook itself, ahead of the router.
NextInline ==
  \/ Common
  \/ \E u \in Users, o \in 1..MaxOrders, amount \in Amounts, filled \in BOOLEAN :
       InitializePayment(u, o, amount, filled)
  \/ \E r \in BagToSet(inflight), ok \in BOOLEAN : InitializePaymentCall(r, ok)
  \/ \E w \in PostedRequests : InlineWebhookReceive(w[1], w[2])
  \/ \E r \in BagToSet(inflight) : InlineWebhookClearCart(r)

SpecInline == Init /\ [][NextInline]_vars

\* server.js defining the webhook itself and mounting the older paystack
\* router: payments are initialized by POST /initialize or by the orders
\* router and verified by GET /verify/:reference, by any signed-in user.
NextLegacy ==
  \/ Tick
  \/ \E r \in OrderRefs, outcome \in {"success", "failed"} : GatewaySettle(r, outcome)
  \/ \E u \in Shoppers, p \in Products, q \in 1..MaxQty : CartAdd(u, p, q)
  \/ \E u \in Shoppers : CartClear(u)
  \/ \E u \in Shoppers : CreateOrder(u, GoodBody)
  \/ \E r \in BagToSet(inflight), ok \in BOOLEAN : CreateOrderInitialize(r, ok)
  \/ \E u \in Users, o \in 1..MaxOrders, amount \in Amounts :
       InitializePayment(u, o, amount, TRUE)
  \/ \E r \in BagToSet(inflight), ok \in BOOLEAN : InitializePaymentCall(r, ok)
  \/ \E u \in Users, r \in OrderRefs, answered \in BOOLEAN :
       VerifyReference(u, r, answered)
  \/ \E r \in BagToSet(inflight) : VerifyReferenceClearCart(r)
  \/ \E b \in GatewayEvents :
       InlineWebhookReceive(b, Hmac(PAYSTACK_SECRET_KEY, RawBody(b)))
  \/ \E r \in BagToSet(inflight) : InlineWebhookClearCart(r)

SpecLegacy == Init /\ [][NextLegacy]_vars

\* Checkouts racing for the same stock: carts are filled, orders created and
\* paid, and the gateway's deliveries handled by the router's webhook.
NextRace ==
  \/ Tick
  \/ \E r \in AllRefs, outcome \in {"success", "failed"} : GatewaySettle(r, outcome)
  \/ \E u \in Users, q \in 1..MaxQty : CartAdd(u, "pA", q)
  \/ \E u \in Users : CreateRacingOrder(u, GoodBody)
  \/ \E r \in BagToSet(inflight), ok \in BOOLEAN : CreateOrderInitialize(r, ok)
  \/ \E b \in GatewayEvents : WebhookReceive(b, Hmac(PAYSTACK_SECRET_KEY, RawBody(b)))
  \/ \E r \in BagToSet(inflight) : WebhookUpdateOrder(r)
  \/ \E r \in BagToSet(inflight) : WebhookClearCart(r)
  \/ \E r \in BagToSet(inflight), ok \in BOOLEAN : WebhookDecrementStock(r, ok)

SpecRace == Init /\ [][NextRace]_vars

\* Prices an admin gives a product: the catalogue's, or a sale price.
NewPrices(p) == {Price(p), Price(p) - 20000}

\* The shop before any payment is reported: the cart, order and admin routers
\* with the gateway only initializing transactions.
NextCheckout ==
  \/ Tick
  \/ \E u \in Shoppers, p \in Products, q \in 1..MaxQty : CartAdd(u, p, q)
  \/ \E u \in Shoppers, p \in Products, q \in (0 - 1)..MaxQty :
       CartUpdate(u, RowId("u1", p), q)
  \/ \E u \in Shoppers, p \in Products : CartRemove(u, RowId("u1", p))
  \/ \E u \in Shoppers : CartClear(u)
  \/ \E u \in Shoppers, body \in Bodies : CreateOrderThenEmail(u, body)
  \/ \E r \in BagToSet(inflight), sent \in BOOLEAN : CreateOrderEmail(r, sent)
  \/ \E r \in BagToSet(inflight), ok \in BOOLEAN : CreateOrderInitialize(r, ok)
  \/ \E u \in Users, o \in 1..MaxOrders, email \in BOOLEAN : RetryPayment(u, o, email)
  \/ \E r \in BagToSet(inflight), ok \in BOOLEAN : RetryInitialize(r, ok)
  \/ \E o \in 1..MaxOrders, s \in {"shipped", "cancelled", "processing"} :
       AdminUpdateOrderStatus(o, s)
  \/ \E p \in Products, filled \in BOOLEAN, n \in {0, InitStock} :
       \E np \in NewPrices(p) : AdminUpdateProduct(p, filled, n, np)

SpecCheckout == Init /\ [][NextCheckout]_vars

\* The shop with an admin who reprices products while orders are paid: the
\* requests of the order's owner, the gateway's own deliveries, and the edits.
NextSnapshot ==
  \/ Tick
  \/ \E r \in OrderRefs, outcome \in {"success", "failed"} : GatewaySettle(r, outcome)
  \/ \E u \in Shoppers, q \in 1..MaxQty : CartAdd(u, "pA", q)
  \/ \E u \in Shoppers : CartClear(u)
  \/ \E u \in Shoppers : CreateOrder(u, GoodBody)
  \/ \E r \in BagToSet(inflight), ok \in BOOLEAN : CreateOrderInitialize(r, ok)
  \/ \E u \in Shoppers, o \in 1..MaxOrders : RetryPayment(u, o, TRUE)
  \/ \E r \in BagToSet(inflight), ok \in BOOLEAN : RetryInitialize(r, ok)
  \/ \E u \in Shoppers, r \in OrderRefs : VerifyPayment(u, r, TRUE)
  \/ \E r \in BagToSet(inflight) : VerifyUpdateOrder(r)
  \/ \E r \in BagToSet(inflight) : VerifyClearCart(r)
  \/ \E o \in 1..MaxOrders, s \in {"shipped", "cancelled"} : AdminUpdateOrderStatus(o, s)
  \/ \E np \in NewPrices("pA") : AdminUpdateProduct("pA", TRUE, stock["pA"], np)
  \/ \E b \in GatewayEvents : WebhookReceive(b, Hmac(PAYSTACK_SECRET_KEY, RawBody(b)))
  \/ \E r \in BagToSet(inflight) : WebhookUpdateOrder(r)
  \/ \E r \in BagToSet(inflight) : WebhookClearCart(r)
  \/ \E r \in BagToSet(inflight), ok \in BOOLEAN : WebhookDecrementStock(r, ok)

SpecSnapshot == Init /\ [][NextSnapshot]_vars

\* The gateway's deliveries handled to the end: a shopper fills the cart and
\* checks out, pays or is declined, and goes on shopping; every await of the
\* webhook that the database answers is followed by the handler's next step.
NextDelivery ==
  \/ Tick
  \/ \E r \in OrderRefs, outcome \in {"success", "failed"} : GatewaySettle(r, outcome)
  \/ \E u \in Shoppers, p \in Products, q \in 1..MaxQty : CartAdd(u, p, q)
  \/ \E u \in Shoppers : CreateOrder(u, GoodBody)
  \/ \E r \in BagToSet(inflight), ok \in BOOLEAN : CreateOrderInitialize(r, ok)
  \/ \E b \in GatewayEvents : WebhookReceive(b, Hmac(PAYSTACK_SECRET_KEY, RawBody(b)))
  \/ \E r \in BagToSet(inflight) : WebhookUpdateOrder(r)
  \/ \E r \in BagToSet(inflight) : WebhookClearCart(r)
  \/ \E r \in BagToSet(inflight), ok \in BOOLEAN : WebhookDecrementStock(r, ok)

SpecDelivery ==
  /\ Init
  /\ [][NextDelivery]_vars
  /\ WF_vars(\E r \in BagToSet(inflight) : WebhookUpdateOrder(r))
  /\ WF_vars(\E r \in BagToSet(inflight) : WebhookClearCart(r))
  /\ WF_vars(\E r \in BagToSet(inflight), ok \in BOOLEAN : WebhookDecrementStock(r, ok))

\* The cart router on its own: every signed-in user adds, updates, removes and
\* clears, with any whole number for a quantity and any row's id.
NextCart ==
  \/ \E u \in Users, p \in Products, q \in (0 - 1)..MaxQty : CartAdd(u, p, q)
  \/ \E u, v \in Users, p \in Products, q \in (0 - 1)..MaxQty :
       CartUpdate(u, RowId(v, p), q)
  \/ \E u, v \in Users, p \in Products : CartRemove(u, RowId(v, p))
  \/ \E u \in Users : CartClear(u)

SpecCart == Init /\ [][NextCart]_vars

\* calculateOrderTotals called on its own, on any item list, region and discount.
LinePrices  == {1, 150, Kobo(5000)}
Percentages == {0, 10, 50}

ItemLists ==
  UNION {[1..n -> [price : LinePrices, quantity : 1..MaxQty + 1]] : n \in 0..MaxLines}

Regions ==
  {Str("lagos"), [Str("lagos") EXCEPT !.caps = TRUE], [Str("lagos") EXCEPT !.padded = TRUE],
   Str("ogun"), [Str("edo") EXCEPT !.caps = TRUE], Str("kano"), Str("abuja"),
   Str("texas"), Str(""), [Str("") EXCEPT !.padded = TRUE]}

InitPricing ==
  /\ InitTables
  /\ calc \in [items : ItemLists, state : Regions,
               discount : [percentage : Percentages, expired : BOOLEAN],
               totals : {NoTotals}]

Calculate ==
  /\ calc.totals = NoTotals
  /\ calc' = [calc EXCEPT !.totals = calculateOrderTotals(calc.items, calc.state, calc.discount)]
  /\ UNCHANGED <<orders, cart, stock, price, txns, now, inflight, clears, decs, stockErr, applied>>

NextPricing == Calculate

SpecPricing == InitPricing /\ [][NextPricing]_vars

TypeOK ==
  /\ \A o \in 1..Len(orders) : /\ orders[o].payment_status \in PaymentStatuses
                               /\ orders[o].order_status \in OrderStatuses
  /\ BagCardinality(inflight) <= MaxInflight


\* ------------------------------------------- a trigger run on its own
\* The loop over order_items with every decrement_stock call succeeding.
RECURSIVE DecrementAll(_, _, _)
DecrementAll(s, items, i) ==
  IF i > Len(items)
    THEN s
    ELSE DecrementAll(decrement_stock(s, items[i].product_id, items[i].quantity),
                      items, i + 1)

\* The tables after the router's webhook has handled, with no other request
\* in between, the event `outcome` of the transaction `reference` of order oid.
WebhookOutcome(oid, reference, outcome) ==
  IF outcome = "success"
    THEN [orders |-> UpdateOrder(orders, oid, WebhookSuccessFields(reference)),
          cart   |-> DeleteCart(cart, orders[oid].user_id),
          stock  |-> DecrementAll(stock, orders[oid].order_items, 1)]
    ELSE [orders |-> UpdateOrder(orders, oid, WebhookFailedFields(reference)),
          cart   |-> cart,
          stock  |-> stock]

\* The tables after POST /verify by the order's owner has handled the same
\* gateway result.
VerifyOutcome(oid, reference, outcome) ==
  IF outcome = "success"
    THEN [orders |-> UpdateOrder(orders, oid, VerifySuccessFields),
          cart   |-> DeleteCart(cart, orders[oid].user_id),
          stock  |-> stock]
    ELSE [orders |-> orders, cart |-> cart, stock |-> stock]

\* ---------------------------------------------------------- properties
\* The requests being handled for an order.
Handling(oid) == {r \in BagToSet(inflight) : r.oid = oid}

\* The quantity of a product over the lines of an order.
RECURSIVE QuantityFrom(_, _, _)
QuantityFrom(items, pid, i) ==
  IF i > Len(items)
    THEN 0
    ELSE (IF items[i].product_id = pid THEN items[i].quantity ELSE 0)
           + QuantityFrom(items, pid, i + 1)

Quantity(oid, pid) == QuantityFrom(orders[oid].order_items, pid, 1)

\* The number of lines of an order that name a product.
Lines(oid, pid) ==
  Cardinality({i \in 1..Len(orders[oid].order_items) :
                 orders[oid].order_items[i].product_id = pid})

\* C1: however many success triggers reach an order, and in whatever order,
\* its owner's cart is cleared at most once and each line's stock is
\* decremented at most once.
C1_SideEffectsAtMostOnce ==
  \A o \in 1..Len(orders) :
    /\ clears[o] <= 1
    /\ \A p \in Products : decs[o][p] <= Lines(o, p)

\* C2: a pending order that the webhook and the manual verification have each
\* brought a success outcome to once, in either order, has had each line's
\* stock decremented exactly once and its owner's cart cleared exactly once.
C2_TwiceAppliedOnce ==
  \A o \in 1..Len(orders) :
    ( /\ applied[o].webhook = 1
      /\ applied[o].verify = 1
      /\ Handling(o) = {}
      /\ ~stockErr[o]
      /\ \A r \in AllRefs : r.oid = o => txns[r] # "failed" )
    => ( /\ clears[o] = 1
         /\ \A p \in Products : decs[o][p] = Lines(o, p) )

\* A success trigger that read the order at payment_status = success takes
\* its step after that read in this step.
AlreadySuccessStep(o) ==
  \E r \in Handling(o) :
    /\ r.seen = "success"
    /\ WebhookUpdateOrder(r) \/ VerifyUpdateOrder(r)

\* C3: a success trigger that finds the order already at payment_status =
\* success leaves the order row exactly as it was.
C3_AlreadySuccessNoMutation ==
  [][\A o \in 1..Len(orders) :
       AlreadySuccessStep(o) => orders'[o] = orders[o]]_vars

\* C4: a webhook request whose signature is not the HMAC of its body under
\* the secret is answered 401, and the handler stops there: no order, cart row
\* or stock value is changed and nothing goes on to a later write.
C4_BadSignatureRejected ==
  \A w \in WebhookRequests :
    Hmac(PAYSTACK_SECRET_KEY, RawBody(w[1])) # w[2]
      => WebhookResult(w[1], w[2]) = Answer(401)

\* C4 witness: a forged charge.success about a stored pending order, carrying
\* the signature copied from another event the gateway did sign, is answered 401.
C4_Witness ==
  \E w \in WebhookRequests :
    /\ w[2] # NoSignature
    /\ Hmac(PAYSTACK_SECRET_KEY, RawBody(w[1])) # w[2]
    /\ w[1].event = "charge.success"
    /\ Exists(w[1].metadata.order_id)
    /\ orders[w[1].metadata.order_id].payment_status = "pending"
    /\ WebhookResult(w[1], w[2]).status = 401

\* C5: a step that takes an order from another payment_status to success
\* sets order_status = processing with it and leaves a payment_reference.
C5_SuccessSetsProcessing ==
  [][\A o \in 1..Len(orders) :
       (orders[o].payment_status # "success" /\ orders'[o].payment_status = "success")
         => ( /\ orders'[o].order_status = "processing"
              /\ orders'[o].payment_reference # NoRef )]_vars

\* C6: for a pending order and a gateway outcome, the webhook and the manual
\* verification leave the same orders, cart and stock.
C6_TriggersAgree ==
  \A o \in 1..Len(orders), outcome \in {"success", "failed"} :
    (orders[o].payment_status = "pending" /\ orders[o].payment_reference # NoRef)
      => WebhookOutcome(o, orders[o].payment_reference, outcome)
           = VerifyOutcome(o, orders[o].payment_reference, outcome)

\* C7: once the one trigger that took an order to success has finished, and no
\* decrement failed, each product has been decremented by the quantity the
\* order's lines ask of it.
C7_TransitionDecrementsStock ==
  \A o \in 1..Len(orders) :
    ( /\ orders[o].payment_status = "success"
      /\ applied[o].webhook + applied[o].verify = 1
      /\ Handling(o) = {}
      /\ ~stockErr[o] )
    => \A p \in Products : decs[o][p] * Quantity(o, p) = Quantity(o, p) * Lines(o, p)

\* C8: a signed charge.failed event about a stored order sets payment_status
\* = failed and order_status = cancelled, records the reference, and changes
\* no cart row and no stock.
C8_FailedCancelsOrder ==
  \A b \in SettledEvents :
    b.event = "charge.failed"
      => LET result == InlineWebhookResult(b, Hmac(PAYSTACK_SECRET_KEY, RawBody(b)))
             order  == result.db.orders[b.metadata.order_id]
         IN  /\ order.payment_status = "failed"
             /\ order.order_status = "cancelled"
             /\ order.payment_reference = b.reference
             /\ result.db.cart = cart
             /\ result.db.stock = stock

\* C9: once payment_status is success or failed, no step changes it.
C9_TerminalStatusFinal ==
  [][\A o \in 1..Len(orders) :
       orders[o].payment_status \in {"success", "failed"}
         => orders'[o].payment_status = orders[o].payment_status]_vars

\* C10: no order is at payment_status = success and order_status = cancelled.
C10_NeverPaidAndCancelled ==
  \A o \in 1..Len(orders) :
    ~(orders[o].payment_status = "success" /\ orders[o].order_status = "cancelled")

\* C11: an order creation that succeeds inserts exactly one order, owned by
\* the caller, at payment_status = pending and order_status = pending with no
\* payment_reference, and leaves the cart as it is; an order has a
\* payment_reference only once a gateway initialization has returned it.
C11_CreateInsertsPendingOrder ==
  /\ \A u \in Users, b \in Bodies :
       LET result == CreateOrderResult(u, b)
           order  == result.db.orders[Len(orders) + 1]
       IN  result.next # {}
             => /\ Len(result.db.orders) = Len(orders) + 1
                /\ SubSeq(result.db.orders, 1, Len(orders)) = orders
                /\ order.user_id = u
                /\ order.payment_status = "pending"
                /\ order.order_status = "pending"
                /\ order.payment_reference = NoRef
                /\ result.db.cart = cart
  /\ \A o \in 1..Len(orders) :
       orders[o].payment_reference # NoRef
         => /\ orders[o].payment_reference \in AllRefs
            /\ txns[orders[o].payment_reference] # "none"

\* C11 witness: an order has just been inserted, its initialization has not
\* returned yet, and its owner's cart still holds the lines.
C11_Witness ==
  \E r \in Waiting("create", "initialize") :
    /\ orders[r.oid].user_id = r.uid
    /\ orders[r.oid].payment_status = "pending"
    /\ orders[r.oid].order_status = "pending"
    /\ orders[r.oid].payment_reference = NoRef
    /\ CartOf(cart, r.uid) # {}

\* A step of the success transition that decrements stock, or an admin edit
\* of a product.
StockWriter ==
  \/ \E r \in Waiting("webhook", "stock") : WebhookDecrementStock(r, TRUE)
  \/ \E p \in Products, n \in {0, InitStock} :
       \E np \in NewPrices(p) : AdminUpdateProduct(p, TRUE, n, np)

\* C12: a step that changes a product's stock is a decrement of the success
\* transition or an admin product edit; order creation, retry, initialization,
\* the failure outcome, the status query and the cart operations leave stock
\* as it is.
C12_StockWriters ==
  [][stock' # stock => StockWriter]_vars

\* C12 witness: the cart has been emptied after an order was created, the
\* order's payment has failed, and the stock is the initial one.
C12_Witness ==
  /\ \E o \in 1..Len(orders) : /\ orders[o].payment_status = "failed"
                               /\ orders[o].order_status = "cancelled"
                               /\ CartOf(cart, orders[o].user_id) = {}
                               /\ clears[o] = 0
  /\ stock = [p \in Products |-> InitStock]

\* C13: an order creation whose body misses state, city, address or email, or
\* names a region outside the enumeration, or whose caller has an empty cart,
\* is answered 4xx, inserts no order, starts no gateway call and leaves cart
\* and stock as they are.
C13_ValidationRejects ==
  \A u \in Users, b \in Bodies :
    ( \/ Falsy(b.state) \/ ~b.city \/ ~b.address \/ ~b.email
      \/ trim(toLowerCase(b.state)) \notin nigerianStates
      \/ CartOf(cart, u) = {} )
    => LET result == CreateOrderResult(u, b)
       IN  /\ result.status \in 400..499
           /\ result.db = DB
           /\ result.next = {}

\* C13 witness: a caller whose cart would pass is refused for the region.
C13_Witness ==
  /\ Len(orders) < MaxOrders
  /\ CartOf(cart, "u1") # {}
  /\ ~InsufficientStock(CartOf(cart, "u1"))
  /\ CreateOrderResult("u1", [GoodBody EXCEPT !.state = Str("texas")]).status = 400
  /\ CreateOrderResult("u1", GoodBody).next # {}

\* C14: with a valid body and a cart that is not empty, order creation is
\* refused, with no order inserted and no gateway call, exactly when some cart
\* line asks for more than the product's stock.
C14_InsufficientStockIff ==
  \A u \in Users :
    LET rows   == CartOf(cart, u)
        result == CreateOrderResult(u, GoodBody)
        short  == \E row \in rows : stock[row.product_id] < row.quantity
    IN  rows # {}
          => /\ short <=> (result.status = 400 /\ result.db = DB /\ result.next = {})
             /\ ~short <=> (result.next # {}
                              /\ Len(result.db.orders) = Len(orders) + 1)

\* C14 witness: a cart line asks for more than is in stock and the creation
\* is refused.
C14_Witness ==
  /\ Len(orders) < MaxOrders
  /\ \E row \in CartOf(cart, "u1") : stock[row.product_id] < row.quantity
  /\ CreateOrderResult("u1", GoodBody).status = 400

\* C15: when the initialize call of an order creation fails, the order stays
\* in the table with order_status = payment_failed and payment_status =
\* pending, and the caller is told of the failure and of the order's id.
C15_InitializeFailureKeepsOrder ==
  \A r \in Waiting("create", "initialize") :
    LET result == CreateOrderInitializeResult(r, FALSE)
    IN  /\ result.status = 500
        /\ result.order_id = r.oid
        /\ Len(result.orders) = Len(orders)
        /\ result.orders[r.oid].order_status = "payment_failed"
        /\ result.orders[r.oid].payment_status = "pending"
        /\ result.txns = txns

\* C15 witness: an order whose initialization failed.
C15_Witness ==
  \E o \in 1..Len(orders) :
    /\ orders[o].order_status = "payment_failed"
    /\ orders[o].payment_status = "pending"
    /\ orders[o].payment_reference = NoRef
    /\ Handling(o) = {}

\* C16: retry-payment answers 404 and changes nothing for an order that does
\* not exist or is not the caller's, refuses a paid order with no gateway call
\* and no change, and goes on to the gateway for an order left at
\* payment_failed.
C16_RetryChecks ==
  \A u \in Users, o \in OrderIds :
    LET result == RetryPaymentResult(u, o, TRUE)
        owned  == Exists(o) /\ orders[o].user_id = u
    IN  /\ ~owned => result = Answer(404)
        /\ (owned /\ orders[o].payment_status = "success")
             => (result.status \in 400..499 /\ result.db = DB /\ result.next = {})
        /\ (owned /\ orders[o].payment_status # "success"
                  /\ orders[o].order_status = "payment_failed")
             => (result.next # {} /\ result.db = DB)

\* C16 witness: the owner of a paid order asks to pay it again and is refused.
C16_Witness ==
  \E o \in 1..Len(orders) :
    /\ orders[o].payment_status = "success"
    /\ RetryPaymentResult(orders[o].user_id, o, TRUE).status = 400

\* C17: the reference an initialization generates is none of the references
\* generated before it.
C17_ReferencesDistinct ==
  \A r \in BagToSet(inflight) :
    r.pc = "initialize" => txns[InitializeRequest(r).reference] = "none"

\* C18: every initialization asks the gateway for the order's stored total, in
\* kobo, and attaches the order's id and its owner's id as metadata.
C18_InitializeAmountAndMetadata ==
  \A r \in BagToSet(inflight) :
    r.pc = "initialize"
      => /\ InitializeRequest(r).amount = orders[r.oid].total
         /\ InitializeRequest(r).metadata
              = [order_id |-> r.oid, user_id |-> orders[r.oid].user_id]

\* C19: the fields calculateOrderTotals returns satisfy total = subtotal +
\* delivery fee - discount amount exactly, whatever the items, the region and
\* the discount, also when the discount is not a whole number of kobo.
C19_TotalIsSumOfFields ==
  calc.totals # NoTotals
    => calc.totals.total
         = calc.totals.subtotal + Kobo(calc.totals.deliveryFee) - calc.totals.discountAmount

\* C20: calculateDeliveryFee maps lagos to 10000, each nearby region to 23000,
\* every other recognized region to 27000, and an unrecognized or empty region
\* to a fee that is none of the three.
C20_DeliveryFeeLookup ==
  calc.totals # NoTotals
    => LET region == trim(toLowerCase(calc.state))
           fee    == calc.totals.deliveryFee
       IN  /\ region = Str("lagos") => fee = 10000
           /\ region \in nearbyStates => fee = 23000
           /\ region \in nigerianStates \ (nearbyStates \cup {Str("lagos")}) => fee = 27000
           /\ region \notin nigerianStates => fee \notin {10000, 23000, 27000}

\* C21: the delivery fee of a region string is the delivery fee of the string
\* lower-cased and trimmed, so that strings differing only in letter case or in
\* the blanks around them get the same fee.
C21_FeeOfNormalizedRegion ==
  calc.totals # NoTotals
    => calc.totals.deliveryFee = calculateDeliveryFee(trim(toLowerCase(calc.state)))

\* C22: the discount amount is subtotal x percentage / 100 when a discount is
\* supplied and has not expired, and zero when none is supplied or the one
\* supplied has expired; the total is subtotal + delivery fee with that amount
\* subtracted once.
C22_DiscountAmount ==
  calc.totals # NoTotals
    => LET subtotal == Subtotal(calc.items, 1)
           amount   == IF calc.discount = NoDiscount \/ calc.discount.expired
                         THEN 0
                         ELSE subtotal * calc.discount.percentage
       IN  /\ calc.totals.discountAmount = Round2(amount)
           /\ calc.totals.total
                = Round2(subtotal * 100 + Kobo(calc.totals.deliveryFee) * 100 - amount)

\* The sum over the lines of unit price x quantity.
RECURSIVE SumOfLines(_)
SumOfLines(items) ==
  IF items = <<>>
    THEN 0
    ELSE Head(items).price * Head(items).quantity + SumOfLines(Tail(items))

C24_SnapshotFixed ==
  /\ [](\A o \in 1..Len(orders) :
          orders[o].total
            = orders[o].subtotal + orders[o].delivery_fee
                - calculateOrderTotals(orders[o].order_items, GoodBody.state,
                                       NoDiscount).discountAmount)
  /\ [][\A o \in 1..Len(orders) :
          /\ orders'[o].order_items = orders[o].order_items
          /\ orders'[o].subtotal = orders[o].subtotal
          /\ orders'[o].delivery_fee = orders[o].delivery_fee
          /\ orders'[o].total = orders[o].total]_vars

\* C24 witness: an order has been paid and shipped and its owner's cart filled
\* again, the product of its line sells at another price than the line
\* records, and the order's amounts are the ones of the recorded price.
C24_Witness ==
  \E o \in 1..Len(orders) :
    /\ orders[o].payment_status = "success"
    /\ orders[o].order_status = "shipped"
    /\ orders[o].payment_reference # NoRef
    /\ CartOf(cart, orders[o].user_id) # {}
    /\ \E i \in 1..Len(orders[o].order_items) :
         LET item == orders[o].order_items[i]
         IN  /\ item.price # price[item.product_id]
             /\ orders[o].subtotal = item.price * item.quantity
             /\ orders[o].total = orders[o].subtotal + orders[o].delivery_fee

\* C25: once a success trigger has finished on an order, it has run its cart
\* delete; and the step that runs the cart delete of a success transition of
\* an order leaves no cart row of the order's owner, also of the rows added
\* since the order was created, and changes no cart row of another user.
C25_OwnersCartCleared ==
  /\ [](\A o \in 1..Len(orders) :
          (applied[o].webhook + applied[o].verify > 0 /\ Handling(o) = {})
            => clears[o] > 0)
  /\ [][\A o \in 1..Len(orders) :
          clears'[o] # clears[o]
            => /\ CartOf(cart', orders[o].user_id) = {}
               /\ \A u \in Users \ {orders[o].user_id} :
                    CartOf(cart', u) = CartOf(cart, u)]_vars

\* C26: a manual verification by a user for whom no order carries the
\* reference changes no order, cart row or stock and goes on to no write, and
\* answers 404 when the gateway reports the payment as successful; a
\* verification that goes on to its update does so on an order of the caller.
C26_VerifyScopedToCaller ==
  /\ \A u \in Users, r \in AllRefs :
       OrderByReference(r, u) = {}
         => /\ \A result \in {VerifyPaymentResult(u, r, TRUE),
                               VerifyReferenceResult(u, r, TRUE)} :
                 /\ result.db = DB
                 /\ result.next = {}
                 /\ txns[r] = "success" => result.status = 404
  /\ \A r \in Waiting("verify", "update") : orders[r.oid].user_id = r.uid

\* C27: a manual verification whose call of the gateway times out, cannot
\* connect, or is answered with an error for the reference, answers its caller
\* with an error and leaves every order, cart row and stock value as it was,
\* with no write to follow.
C27_VerifyCallFailure ==
  \A u \in Users, r \in AllRefs :
    \A result \in {VerifyPaymentResult(u, r, FALSE), VerifyReferenceResult(u, r, FALSE)}
                     \cup (IF txns[r] = "none"
                             THEN {VerifyPaymentResult(u, r, TRUE),
                                   VerifyReferenceResult(u, r, TRUE)}
                             ELSE {}) :
      /\ result.status \in 400..599
      /\ result.db = DB
      /\ result.next = {}

\* C27 witness: the owner of a pending order whose payment went through
\* verifies it; the call that is answered goes on to the update, the call that
\* times out is answered 500.
C27_Witness ==
  \E o \in 1..Len(orders) :
    LET u == orders[o].user_id
        r == orders[o].payment_reference
    IN  /\ orders[o].payment_status = "pending"
        /\ r \in AllRefs
        /\ txns[r] = "success"
        /\ CartOf(cart, u) # {}
        /\ VerifyPaymentResult(u, r, TRUE).next # {}
        /\ VerifyPaymentResult(u, r, FALSE) = Answer(500)

\* The stock of a product that the decrement_stock calls for the first o
\* orders have taken.
RECURSIVE Taken(_, _)
Taken(o, p) ==
  IF o = 0
    THEN 0
    ELSE decs[o][p] * Quantity(o, p) + Taken(o - 1, p)

\* C30: the stock check of an order creation sets nothing aside: the creation
\* leaves every stock value as it is, and a product's stock is what it started
\* with less what the decrements of paid orders have taken, with nothing that
\* keeps it at or above zero.
C30_StockCheckReservesNothing ==
  /\ \A u \in Users : CreateOrderResult(u, GoodBody).db.stock = stock
  /\ \A p \in Products : stock[p] = InitStock - Taken(Len(orders), p)

\* C30 witness: two orders with a line of the same product, each created
\* after passing the stock check, have both been paid and handled once, and
\* the product's stock is below zero.
C30_Witness ==
  \E o1, o2 \in 1..Len(orders), p \in Products :
    /\ o1 # o2
    /\ \A o \in {o1, o2} : /\ orders[o].payment_status = "success"
                            /\ Quantity(o, p) > 0
                            /\ decs[o][p] = 1
                            /\ applied[o].webhook = 1
                            /\ Handling(o) = {}
    /\ stock[p] < 0

\* C28: a signed webhook event whose metadata names no order is answered 200
\* and changes no order, cart row or stock, with no write to follow; a signed
\* charge.success naming an order that is not in the table is answered 404
\* and changes nothing either.
C28_UnresolvableEventIgnored ==
  \A b \in GatewayEvents :
    LET result == InlineWebhookResult(b, Hmac(PAYSTACK_SECRET_KEY, RawBody(b)))
    IN  /\ b.metadata.order_id = 0 => result = Answer(200)
        /\ ( /\ b.event = "charge.success"
              /\ b.metadata.order_id # 0
              /\ ~Exists(b.metadata.order_id) )
             => result = Answer(404)

\* C29: the payment status query changes no order, cart row or stock and
\* starts no write; it answers 404 unless an order of the caller carries the
\* reference, and then 200 with that order's payment_status, order_status,
\* total and created_at.
C29_StatusQueryScoped ==
  \A u \in Users, r \in AllRefs :
    LET result == PaymentStatusResult(u, r)
        own    == {o \in 1..Len(orders) : /\ orders[o].payment_reference = r
                                          /\ orders[o].user_id = u}
    IN  /\ result.db = DB
        /\ result.next = {}
        /\ own = {} => result.status = 404
        /\ \A o \in own :
             /\ result.status = 200
             /\ PaymentStatusBody(u, r).payment_status = orders[o].payment_status
             /\ PaymentStatusBody(u, r).order_status = orders[o].order_status
             /\ PaymentStatusBody(u, r).total = orders[o].total
             /\ PaymentStatusBody(u, r).created_at = orders[o].created_at

\* C29 witness: a paid order of u1 carries a reference; u1 is answered 200
\* with its statuses and u2, asking for the same reference, 404.
C29_Witness ==
  \E o \in 1..Len(orders) :
    LET r == orders[o].payment_reference
    IN  /\ orders[o].user_id = "u1"
        /\ r \in AllRefs
        /\ orders[o].payment_status = "success"
        /\ PaymentStatusResult("u1", r) = Answer(200)
        /\ PaymentStatusBody("u1", r).payment_status = "success"
        /\ PaymentStatusResult("u2", r) = Answer(404)

\* C31: in every state every order's payment_status is pending, success or
\* failed and its order_status is pending, payment_failed, processing, shipped,
\* delivered or cancelled; an admin status update with a value other than
\* pending, shipped, delivered or cancelled is answered 400 and changes nothing.
C31_StatusesInRange ==
  /\ \A o \in 1..Len(orders) : /\ orders[o].payment_status \in PaymentStatuses
                               /\ orders[o].order_status \in OrderStatuses
  /\ \A o \in OrderIds :
       \A s \in RequestedStatuses \ {"pending", "shipped", "delivered", "cancelled"} :
         AdminUpdateOrderStatusResult(o, s) = Answer(400)

\* C31 witness: a paid order has been shipped, and the admin's request to put
\* it at processing, or at a status that is none of the six, is answered 400.
C31_Witness ==
  \E o \in 1..Len(orders) :
    /\ orders[o].payment_status = "success"
    /\ orders[o].order_status = "shipped"
    /\ AdminUpdateOrderStatusResult(o, "processing") = Answer(400)
    /\ AdminUpdateOrderStatusResult(o, "refunded") = Answer(400)
    /\ AdminUpdateOrderStatusResult(o, "delivered").status = 200

\* C35: a retry-payment that succeeds changes the payment_reference of its
\* order and nothing else: payment_status, order_status, the items and the
\* amounts of the order, every other order, the cart, the stock and the prices
\* are as they were, in the step that reads the order and in the step that
\* saves the reference.
C35_RetryChangesReferenceOnly ==
  /\ [](/\ \A u \in Users, o \in OrderIds : RetryPaymentResult(u, o, TRUE).db = DB
        /\ \A r \in Waiting("retry", "initialize") :
             RetryInitializeResult(r, TRUE).status = 200
               => RetryInitializeResult(r, TRUE).orders
                    = [orders EXCEPT ![r.oid].payment_reference =
                                        InitializeRequest(r).reference])
  /\ [][\A r \in Waiting("retry", "initialize") :
          RetryInitialize(r, TRUE)
            => /\ cart' = cart
               /\ stock' = stock
               /\ price' = price]_vars

\* C35 witness: the owner retries an order left at payment_failed while the
\* cart still holds lines; the retry is about to succeed, and leaves the order
\* at payment_failed and pending payment with the new reference.
C35_Witness ==
  \E r \in Waiting("retry", "initialize") :
    LET result == RetryInitializeResult(r, TRUE)
    IN  /\ orders[r.oid].order_status = "payment_failed"
        /\ CartOf(cart, r.uid) # {}
        /\ result.status = 200
        /\ result.orders[r.oid].order_status = "payment_failed"
        /\ result.orders[r.oid].payment_status = "pending"
        /\ result.orders[r.oid].payment_reference = Reference(r.oid, now)

\* C36: an order at payment_status = success carries the reference of a
\* transaction that succeeded on the gateway, also when a retry or an
\* initialization for the order runs alongside the webhook.
C36_PaidReferenceSucceeded ==
  \A o \in 1..Len(orders) :
    orders[o].payment_status = "success"
      => /\ orders[o].payment_reference \in AllRefs
         /\ txns[orders[o].payment_reference] = "success"

\* C38: an admin order-status update leaves the cart, the stock and the prices
\* as they are, changes no other order, and changes of the order it addresses
\* the order_status alone.
C38_AdminStatusFrame ==
  \A o \in OrderIds, s \in RequestedStatuses :
    LET result == AdminUpdateOrderStatusResult(o, s)
    IN  /\ result.next = {}
        /\ result.db.cart = cart
        /\ result.db.stock = stock
        /\ result.db.price = price
        /\ Len(result.db.orders) = Len(orders)
        /\ \A k \in 1..Len(orders) :
             /\ k # o => result.db.orders[k] = orders[k]
             /\ result.db.orders[k]
                  = [orders[k] EXCEPT !.order_status = result.db.orders[k].order_status]

\* C38 witness: a paid order in processing, with lines in its owner's cart, is
\* cancelled by the admin: payment_status and payment_reference stay.
C38_Witness ==
  \E o \in 1..Len(orders) :
    LET order == AdminUpdateOrderStatusResult(o, "cancelled").db.orders[o]
    IN  /\ orders[o].payment_status = "success"
        /\ orders[o].order_status = "processing"
        /\ CartOf(cart, orders[o].user_id) # {}
        /\ order.order_status = "cancelled"
        /\ order.payment_status = "success"
        /\ order.payment_reference = orders[o].payment_reference

\* C32: whatever add, update, remove and clear requests have been handled, no
\* two cart rows are of the same user and product, and the quantity of every
\* cart row is a whole number above zero.
C32_CartLinesUniqueAndPositive ==
  /\ \A row, other \in cart :
       (row.user_id = other.user_id /\ row.product_id = other.product_id)
         => row = other
  /\ \A row \in cart : row.quantity \in Nat \ {0}

\* C34: when the order confirmation of an order creation is not sent, the
\* orders table is left as it is, with the order in it, and the request goes
\* on to the initialize call of the gateway.
C34_EmailFailureKeepsOrder ==
  \A r \in Waiting("create", "email") :
    LET result == CreateOrderEmailResult(r, FALSE)
    IN  /\ Exists(r.oid)
        /\ result.orders = orders
        /\ result.status = 0
        /\ \E q \in result.next : /\ q.kind = "create"
                                  /\ q.pc = "initialize"
                                  /\ q.oid = r.oid
                                  /\ q.uid = r.uid

\* C34 witness: the confirmation of a stored order was not sent, and the
\* order's creation is at its initialize call, with the order as inserted.
C34_Witness ==
  \E r \in Waiting("create", "initialize") :
    /\ r.seen = "unsent"
    /\ orders[r.oid].user_id = r.uid
    /\ orders[r.oid].payment_status = "pending"
    /\ orders[r.oid].order_status = "pending"
    /\ CreateOrderInitializeResult(r, TRUE).status = 201

\* C33: in the success transition of the webhook a decrement_stock call that
\* fails stops nothing: the orders table, with the order at success and
\* processing, is left as it is, the loop goes on to the next line, whose
\* product is then decremented, and after the last line the webhook answers 200.
C33_DecrementsIndependent ==
  \A r \in Waiting("webhook", "stock") :
    LET items  == orders[r.oid].order_items
        result == WebhookDecrementStockResult(r, FALSE)
    IN  /\ result.orders = orders
        /\ result.stock = stock
        /\ r.idx = Len(items) => (result.status = 200 /\ result.next = {})
        /\ r.idx < Len(items)
             => /\ result.status = 0
                /\ result.next = {[r EXCEPT !.idx = r.idx + 1]}
                /\ \A q \in result.next :
                     WebhookDecrementStockResult(q, TRUE).stock
                       = decrement_stock(stock, items[q.idx].product_id,
                                         items[q.idx].quantity)

\* C33 witness: the webhook has handled the payment of an order of two lines;
\* the decrement of the first line failed, the second line's product was
\* decremented, and the order is at success and processing.
C33_Witness ==
  \E o \in 1..Len(orders) :
    /\ Len(orders[o].order_items) = 2
    /\ stockErr[o]
    /\ decs[o][orders[o].order_items[1].product_id] = 0
    /\ decs[o][orders[o].order_items[2].product_id] = 1
    /\ applied[o].webhook = 1
    /\ Handling(o) = {}
    /\ orders[o].payment_status = "success"
    /\ orders[o].order_status = "processing"

\* A signed charge.success about the pending order o of user u has been
\* received and its handling is at the update of the order.
Delivered(o, u) ==
  \E r \in Waiting("webhook", "update") :
    /\ r.oid = o
    /\ r.uid = u
    /\ r.seen = "pending"
    /\ orders[o].user_id = u

\* C37: when every await of the webhook is answered and followed by the
\* handler's next step, a pending order for which a signed charge.success with
\* its order_id and user_id has been delivered comes to payment_status =
\* success, and its owner's cart comes to hold none of the lines it held.
C37_DeliveredSuccessApplied ==
  \A o \in 1..MaxOrders, u \in Users :
    /\ Delivered(o, u) ~> (Exists(o) /\ orders[o].payment_status = "success")
    /\ Delivered(o, u) ~> (CartOf(cart, u) = {})

\* C37 witness: the delivery about a pending order, whose owner's cart held
\* lines, has been handled to the end: the order is paid and the cart empty.
C37_Witness ==
  \E o \in 1..Len(orders) :
    /\ applied[o].webhook = 1
    /\ Handling(o) = {}
    /\ clears[o] = 1
    /\ orders[o].payment_status = "success"
    /\ CartOf(cart, orders[o].user_id) = {}

====
